---- MODULE Spec2Model ----
(***************************************************************************)
(* Booking admission and pricing of the photo studio (src/main.py):        *)
(* Client, Hall, Equipment, Booking, Studio and StudioAdapter.             *)
(*                                                                         *)
(* Objects are referred to by identity, as in the source: a booking holds  *)
(* the position of its client in Studio._clients, of its hall in           *)
(* Studio._halls and of each equipment item in Studio._equipment.  Hall    *)
(* defines no __eq__, so `booking.hall == hall` compares identities.       *)
(* Dates and times are the strings the callers pass ("dd.MM.yyyy",         *)
(* "hh:mm"); the code compares them with ==.                               *)
(*                                                                         *)
(* Money: Python computes total * (1 - discount/100) in floating point.    *)
(* The model keeps the exact value in hundredths of a rouble,              *)
(* total * (100 - discount), which is what the float rounds.               *)
(***************************************************************************)
EXTENDS Integers, Sequences, FiniteSets, TLC

VARIABLES
    halls,      \* Studio._halls
    equipment,  \* Studio._equipment
    clients,    \* Studio._clients
    bookings,   \* Studio.bookings
    outcome,    \* the last completed call: its name, arguments and result
    pc,         \* concurrent callers: where each is inside create_booking
    req,        \* concurrent callers: the Booking each has constructed
    avail,      \* concurrent callers: what _is_hall_available told each
    bookings_list,      \* PhotoStudioApp.bookings_list: the items it shows
    total_stats_label   \* PhotoStudioApp.total_stats_label: what it shows

\* The widgets of the window.
gui == <<bookings_list, total_stats_label>>

vars == <<halls, equipment, clients, bookings, outcome, pc, req, avail, gui>>

(***************************************************************************)
(* Bounds of the model.                                                    *)
(***************************************************************************)
\* Studio.bookings is explored up to this length.
MaxBookings == 2
\* Studio._clients is explored up to this length.
MaxClients == 2
\* Studio._halls is explored up to this length.
MaxHalls == 4
\* Studio._equipment is explored up to this length.
MaxEquipment == 5

(***************************************************************************)
(* Catalog.                                                                *)
(***************************************************************************)
\* Hall.__init__
Hall(number, price, capacity) ==
    [number |-> number, price |-> price, capacity |-> capacity]

\* Equipment.__init__
Equipment(name, price) == [name |-> name, price |-> price]

\* Studio.add_hall
Studio_add_hall(hs, hall) == Append(hs, hall)

\* Studio.add_equipment
Studio_add_equipment(es, item) == Append(es, item)

\* StudioAdapter._init_default_data: the halls it registers, in order.
DefaultHalls ==
    Studio_add_hall(Studio_add_hall(Studio_add_hall(<< >>,
        Hall(1, 2000, 5)), Hall(2, 3000, 10)), Hall(3, 2500, 8))

\* StudioAdapter._init_default_data: the equipment it registers, in order.
\* The names stand for the source's Russian names; no code reads them
\* outside get_info.
DefaultEquipment ==
    Studio_add_equipment(Studio_add_equipment(Studio_add_equipment(
        Studio_add_equipment(<< >>,
        Equipment("Professional light", 500)), Equipment("White backdrop", 300)),
        Equipment("Black backdrop", 300)), Equipment("Props", 200))

(***************************************************************************)
(* Exceptions.                                                             *)
(***************************************************************************)
NoError == [type |-> "none"]

HallNotAvailableError(hall_number, date, time) ==
    [type |-> "HallNotAvailableError", hall_number |-> hall_number,
     date |-> date, time |-> time]

(***************************************************************************)
(* Client.                                                                 *)
(***************************************************************************)
\* Client.__init__: the discount starts at 0.
Client(fname, lname, phone) ==
    [fname |-> fname, lname |-> lname, phone |-> phone, discount |-> 0]

\* Client.apply_discount, with the upper limit taken as exclusive.
Client_apply_discount_exclusive(client, amount) ==
    IF 0 <= amount /\ amount < 30
    THEN [client |-> [client EXCEPT !.discount = amount], returned |-> TRUE]
    ELSE [client |-> client, returned |-> FALSE]

\* Client.apply_discount: the client after the call and the value returned.
Client_apply_discount(client, amount) ==
    IF 0 <= amount /\ amount <= 30
    THEN [client |-> [client EXCEPT !.discount = amount], returned |-> TRUE]
    ELSE [client |-> client, returned |-> FALSE]

(***************************************************************************)
(* Hall, Equipment, Booking.                                               *)
(***************************************************************************)
Hall_calculate_cost(hall, hours) == hall.price * hours

Equipment_calculate_cost(eq, hours) == eq.price * hours

\* Booking.__init__
Booking(client, hall, equip, date, time, duration) ==
    [client |-> client, hall |-> hall, equipment |-> equip,
     date |-> date, time |-> time, duration |-> duration]

\* sum(eq.calculate_cost(duration) for eq in self.equipment)
RECURSIVE equipment_cost(_, _)
equipment_cost(equip, duration) ==
    IF equip = << >> THEN 0
    ELSE Equipment_calculate_cost(equipment[Head(equip)], duration)
         + equipment_cost(Tail(equip), duration)

\* Booking.calculate_total_cost with the discount taken off the hall only.
calculate_total_cost_hall_only(booking, discount) ==
    Hall_calculate_cost(halls[booking.hall], booking.duration) * (100 - discount)
    + equipment_cost(booking.equipment, booking.duration) * 100

\* Booking.calculate_total_cost, in hundredths; discount is
\* self.client._discount read at the time of the call.
calculate_total_cost(booking, discount) ==
    LET hall_cost == Hall_calculate_cost(halls[booking.hall], booking.duration)
        total == hall_cost + equipment_cost(booking.equipment, booking.duration)
    IN  total * (100 - discount)

\* The cost of a held booking, frozen at the discount 0 every client is
\* constructed with.
Booking_cost_frozen(booking) == calculate_total_cost(booking, 0)

\* The cost of a held booking, as any caller of calculate_total_cost gets it.
Booking_cost(booking) ==
    calculate_total_cost(booking, clients[booking.client].discount)

(***************************************************************************)
(* Studio.                                                                 *)
(***************************************************************************)
\* Studio._is_hall_available comparing the hall and the date only.
is_hall_available_no_time(bks, hall, date, time) ==
    ~ \E i \in DOMAIN bks : bks[i].hall = hall /\ bks[i].date = date

\* Studio._is_hall_available that never finds a conflict.
is_hall_available_always(bks, hall, date, time) == TRUE

\* Studio._is_hall_available
is_hall_available(bks, hall, date, time) ==
    ~ \E i \in DOMAIN bks :
        bks[i].hall = hall /\ bks[i].date = date /\ bks[i].time = time

\* Studio.add_booking appending before it checks.
Studio_add_booking_append_first(bks, booking) ==
    IF ~ is_hall_available(bks, booking.hall, booking.date, booking.time)
    THEN [bookings |-> Append(bks, booking),
          raised |-> HallNotAvailableError(halls[booking.hall].number,
                                           booking.date, booking.time),
          returned |-> FALSE]
    ELSE [bookings |-> Append(bks, booking), raised |-> NoError,
          returned |-> TRUE]

\* Studio.add_booking raising with the fields of the first booking held.
Studio_add_booking_first_held(bks, booking) ==
    IF ~ is_hall_available(bks, booking.hall, booking.date, booking.time)
    THEN [bookings |-> bks,
          raised |-> HallNotAvailableError(halls[bks[1].hall].number,
                                           bks[1].date, bks[1].time),
          returned |-> FALSE]
    ELSE [bookings |-> Append(bks, booking), raised |-> NoError,
          returned |-> TRUE]

\* Studio.add_booking: the ledger after the call, what it raised, and
\* whether it returned True.
Studio_add_booking(bks, booking) ==
    IF ~ is_hall_available(bks, booking.hall, booking.date, booking.time)
    THEN [bookings |-> bks,
          raised |-> HallNotAvailableError(halls[booking.hall].number,
                                           booking.date, booking.time),
          returned |-> FALSE]
    ELSE [bookings |-> Append(bks, booking), raised |-> NoError,
          returned |-> TRUE]

\* Studio.add_client
Studio_add_client(cls, client) == Append(cls, client)

(***************************************************************************)
(* StudioAdapter.                                                          *)
(***************************************************************************)
\* StudioAdapter.add_client storing the discount it is given.
StudioAdapter_add_client_unchecked(cls, first_name, last_name, phone, discount) ==
    Studio_add_client(cls, [Client(first_name, last_name, phone)
                               EXCEPT !.discount = discount])

\* StudioAdapter.add_client: the registry after the call.
StudioAdapter_add_client(cls, first_name, last_name, phone, discount) ==
    LET client == Client(first_name, last_name, phone)
        client2 == IF discount > 0
                   THEN Client_apply_discount(client, discount).client
                   ELSE client
    IN  Studio_add_client(cls, client2)

\* StudioAdapter.create_booking
StudioAdapter_create_booking(bks, client, hall, equip, date, time, duration) ==
    Studio_add_booking(bks, Booking(client, hall, equip, date, time, duration))

\* StudioAdapter.get_available_halls leaving out every hall that is held at
\* any time of the date.
get_available_halls_by_date(bks, date, time) ==
    SelectSeq([i \in DOMAIN halls |-> i],
              LAMBDA h : is_hall_available_no_time(bks, h, date, time))

\* StudioAdapter.get_available_halls, in catalog order.
get_available_halls(bks, date, time) ==
    SelectSeq([i \in DOMAIN halls |-> i],
              LAMBDA h : is_hall_available(bks, h, date, time))

(***************************************************************************)
(* Arguments the callers pass.                                             *)
(***************************************************************************)
FirstNames == {"Ivan"}
LastNames == {"Petrov"}

\* A phone is the sequence of its characters.
PhoneValid == <<"8", "9", "0", "0", "1", "2", "3", "4", "5", "6", "7">>
PhoneShort == <<"1", "2", "3">>
PhoneLetters == <<"+", "7", "9", "0", "0", "1", "2", "3", "4", "5", "x">>

Callers == {1, 2}
NoRequest == [client |-> 0]

\* PhotoStudioApp.update_stats: the three numbers the label text is
\* formatted from (the income in hundredths).
StatsText(clients_count, bookings_count, total_income) ==
    [clients_count |-> clients_count, bookings_count |-> bookings_count,
     total_income |-> total_income]

(***************************************************************************)
(* State after StudioAdapter.__init__: Studio.__init__, then               *)
(* _init_default_data.                                                     *)
(***************************************************************************)
Init ==
    /\ halls = DefaultHalls
    /\ equipment = DefaultEquipment
    /\ clients = << >>
    /\ bookings = << >>
    /\ outcome = [op |-> "init", args |-> << >>, raised |-> NoError,
                  returned |-> FALSE]
    /\ pc = [k \in Callers |-> "idle"]
    /\ req = [k \in Callers |-> NoRequest]
    /\ avail = [k \in Callers |-> FALSE]
    /\ bookings_list = << >>
    /\ total_stats_label = StatsText(0, 0, 0)

(***************************************************************************)
(* Calls made by one caller at a time.                                     *)
(***************************************************************************)
\* StudioAdapter.add_client(first_name, last_name, phone, discount)
AddClient(first_name, last_name, phone, discount) ==
    /\ Len(clients) < MaxClients
    /\ clients' = StudioAdapter_add_client(clients, first_name, last_name,
                                           phone, discount)
    /\ outcome' = [op |-> "add_client",
                   args |-> <<first_name, last_name, phone, discount>>,
                   raised |-> NoError, returned |-> TRUE]
    /\ UNCHANGED <<halls, equipment, bookings, pc, req, avail, gui>>

\* adapter.studio.add_hall(Hall(number, price, capacity))
AddHall(number, price, capacity) ==
    /\ Len(halls) < MaxHalls
    /\ halls' = Studio_add_hall(halls, Hall(number, price, capacity))
    /\ outcome' = [op |-> "add_hall", args |-> <<number, price, capacity>>,
                   raised |-> NoError, returned |-> FALSE]
    /\ UNCHANGED <<equipment, clients, bookings, pc, req, avail, gui>>

\* adapter.studio.add_equipment(Equipment(name, price))
AddEquipment(name, price) ==
    /\ Len(equipment) < MaxEquipment
    /\ equipment' = Studio_add_equipment(equipment, Equipment(name, price))
    /\ outcome' = [op |-> "add_equipment", args |-> <<name, price>>,
                   raised |-> NoError, returned |-> FALSE]
    /\ UNCHANGED <<halls, clients, bookings, pc, req, avail, gui>>

\* clients[c].apply_discount(amount)
ApplyDiscount(c, amount) ==
    /\ c \in DOMAIN clients
    /\ LET r == Client_apply_discount(clients[c], amount)
       IN  /\ clients' = [clients EXCEPT ![c] = r.client]
           /\ outcome' = [op |-> "apply_discount", args |-> <<c, amount>>,
                          raised |-> NoError, returned |-> r.returned]
    /\ UNCHANGED <<halls, equipment, bookings, pc, req, avail, gui>>

\* StudioAdapter.create_booking(clients[c], halls[h], equip, date, time,
\* duration), for a hall and items that are in the catalog.  outcome.args is
\* the Booking it constructed; outcome.returned is what Studio.add_booking
\* returned (FALSE when it raised).
CreateBookingUpTo(cap, c, h, equip, date, time, duration) ==
    /\ c \in DOMAIN clients
    /\ h \in DOMAIN halls
    /\ \A i \in DOMAIN equip : equip[i] \in DOMAIN equipment
    /\ LET r == StudioAdapter_create_booking(bookings, c, h, equip, date,
                                             time, duration)
       IN  /\ Len(r.bookings) <= cap
           /\ bookings' = r.bookings
           /\ outcome' = [op |-> "create_booking",
                          args |-> Booking(c, h, equip, date, time, duration),
                          raised |-> r.raised, returned |-> r.returned]
    /\ UNCHANGED <<halls, equipment, clients, pc, req, avail, gui>>

CreateBooking(c, h, equip, date, time, duration) ==
    CreateBookingUpTo(MaxBookings, c, h, equip, date, time, duration)

(***************************************************************************)
(* Spec: admission.  Clients are registered and bookings requested, one    *)
(* call at a time.                                                         *)
(***************************************************************************)
\* Slots <<hall, date, time>>: one slot, and three that differ from it in
\* the start time, in the hall and in the date.
AdmissionSlots ==
    { <<1, "10.02.2025", "10:00">>, <<1, "10.02.2025", "11:00">>,
      <<2, "10.02.2025", "10:00">>, <<1, "11.02.2025", "10:00">> }

\* What is booked on a slot: <<equipment, duration>>.
AdmissionOrders == { << << >>, 2 >>, << <<1>>, 1 >> }

\* Halls <<number, price, capacity>> and equipment <<name, price>> added to
\* the catalog after set-up.
NewHalls == { <<4, 1000, 2>> }
NewEquipment == { <<"Tripod", 100>> }

\* The first slot on a hall added after set-up, and an order with an item
\* added after set-up.
AddedSlots == { <<4, "10.02.2025", "10:00">> }
AddedOrders == { << <<5>>, 1 >> }

Next ==
    \/ \E fn \in FirstNames, ln \in LastNames :
          AddClient(fn, ln, PhoneValid, 0)
    \/ \E c \in 1..MaxClients, s \in AdmissionSlots, o \in AdmissionOrders :
          CreateBooking(c, s[1], o[1], s[2], s[3], o[2])
    \/ \E c \in 1..MaxClients, s \in AddedSlots, o \in AddedOrders :
          CreateBooking(c, s[1], o[1], s[2], s[3], o[2])
    \/ \E x \in NewHalls : AddHall(x[1], x[2], x[3])
    \/ \E x \in NewEquipment : AddEquipment(x[1], x[2])

Spec == Init /\ [][Next]_vars

(***************************************************************************)
(* Properties of admission.                                                *)
(***************************************************************************)
\* Two bookings are on the same slot: same hall, same date, same start time.
SameSlot(b1, b2) ==
    b1.hall = b2.hall /\ b1.date = b2.date /\ b1.time = b2.time

\* The hour an "hh:00" start time names.
StartHour(time) ==
    CASE time = "10:00" -> 10
      [] time = "11:00" -> 11

\* The half-open intervals [start, start + duration) of two bookings meet.
IntervalsIntersect(b1, b2) ==
    /\ StartHour(b1.time) < StartHour(b2.time) + b2.duration
    /\ StartHour(b2.time) < StartHour(b1.time) + b1.duration

\* The last call was a create_booking that raised HallNotAvailableError.
Rejected(o) ==
    o.op = "create_booking" /\ o.raised.type = "HallNotAvailableError"

\* C1: under the exact-match policy, Studio.bookings never holds two
\* distinct bookings with the same hall, the same date and the same start
\* time, whatever add_booking calls were accepted or rejected before.
C1_NoExactDoubleBooking ==
    \A i, j \in DOMAIN bookings :
        i # j => ~ SameSlot(bookings[i], bookings[j])

\* C1 witness: the ledger holds two bookings of one hall on one date, and
\* the last call was a request for an occupied slot, which was rejected.
C1_Witness ==
    /\ Len(bookings) = 2
    /\ bookings[1].hall = bookings[2].hall
    /\ bookings[1].date = bookings[2].date
    /\ Rejected(outcome)

\* C2 (as claimed): no two distinct bookings of the same hall and date have
\* intersecting intervals [start, start + duration).
C2_NoIntervalOverlap ==
    \A i, j \in DOMAIN bookings :
        (i # j /\ bookings[i].hall = bookings[j].hall
               /\ bookings[i].date = bookings[j].date)
        => ~ IntervalsIntersect(bookings[i], bookings[j])

\* C4: a create_booking call that raises HallNotAvailableError leaves
\* Studio.bookings the same sequence, and leaves the hall, equipment and
\* client registries unchanged.
C4_RejectedChangesNothing ==
    [][Rejected(outcome')
       => /\ bookings' = bookings
          /\ halls' = halls
          /\ equipment' = equipment
          /\ clients' = clients]_vars

\* C4 witness: a request was rejected while the ledger held a booking.
C4_Witness ==
    /\ Rejected(outcome)
    /\ Len(bookings) >= 1
    /\ Len(clients) >= 1

\* C5: add_booking(b) raises HallNotAvailableError exactly when the ledger
\* already holds a booking on b's slot, whatever the durations, clients and
\* equipment are; otherwise b becomes the last element and True is returned.
C5_RejectedIffSlotHeld ==
    [][outcome'.op = "create_booking"
       => LET b == outcome'.args
              held == \E i \in DOMAIN bookings : SameSlot(bookings[i], b)
          IN  /\ Rejected(outcome') <=> held
              /\ held => bookings' = bookings /\ outcome'.returned = FALSE
              /\ ~ held => /\ bookings' = Append(bookings, b)
                           /\ outcome'.raised = NoError
                           /\ outcome'.returned = TRUE]_vars

\* C5 witness, rejection: the request is on a held slot and differs from the
\* holder in client, equipment and duration.
C5_Witness ==
    /\ Rejected(outcome)
    /\ \E i \in DOMAIN bookings :
          /\ SameSlot(bookings[i], outcome.args)
          /\ bookings[i].client # outcome.args.client
          /\ bookings[i].equipment # outcome.args.equipment
          /\ bookings[i].duration # outcome.args.duration

(***************************************************************************)
(* SpecConc: two callers inside StudioAdapter.create_booking at once.      *)
(* The code takes no lock: between the return of _is_hall_available and    *)
(* bookings.append another caller may run.  Each caller's call is three    *)
(* steps: construct the Booking, check, then append or raise.              *)
(***************************************************************************)
\* Caller k enters create_booking and constructs its Booking.
ConcCall(k, c, h, equip, date, time, duration) ==
    /\ pc[k] \in {"idle", "accepted", "rejected"}
    /\ c \in DOMAIN clients
    /\ req' = [req EXCEPT ![k] = Booking(c, h, equip, date, time, duration)]
    /\ pc' = [pc EXCEPT ![k] = "check"]
    /\ UNCHANGED <<halls, equipment, clients, bookings, outcome, avail, gui>>

\* Caller k evaluates self._is_hall_available(...) in add_booking.
ConcCheck(k) ==
    /\ pc[k] = "check"
    /\ avail' = [avail EXCEPT ![k] =
                    is_hall_available(bookings, req[k].hall, req[k].date,
                                      req[k].time)]
    /\ pc' = [pc EXCEPT ![k] = "act"]
    /\ UNCHANGED <<halls, equipment, clients, bookings, outcome, req, gui>>

\* Caller k raises HallNotAvailableError.
ConcRaise(k) ==
    /\ pc[k] = "act"
    /\ ~ avail[k]
    /\ outcome' = [op |-> "create_booking", args |-> req[k],
                   raised |-> HallNotAvailableError(halls[req[k].hall].number,
                                                    req[k].date, req[k].time),
                   returned |-> FALSE]
    /\ pc' = [pc EXCEPT ![k] = "rejected"]
    /\ UNCHANGED <<halls, equipment, clients, bookings, req, avail, gui>>

\* Caller k runs self.bookings.append(booking) and returns True.
ConcAppend(k) ==
    /\ pc[k] = "act"
    /\ avail[k]
    /\ Len(bookings) < MaxBookings
    /\ bookings' = Append(bookings, req[k])
    /\ outcome' = [op |-> "create_booking", args |-> req[k],
                   raised |-> NoError, returned |-> TRUE]
    /\ pc' = [pc EXCEPT ![k] = "accepted"]
    /\ UNCHANGED <<halls, equipment, clients, req, avail, gui>>

ConcSlots == { <<1, "10.02.2025", "10:00">>, <<2, "10.02.2025", "10:00">> }

NextConc ==
    \/ \E fn \in FirstNames, ln \in LastNames :
          AddClient(fn, ln, PhoneValid, 0)
    \/ \E k \in Callers, c \in 1..MaxClients, s \in ConcSlots :
          ConcCall(k, c, s[1], << >>, s[2], s[3], 1)
    \/ \E k \in Callers : ConcCheck(k)
    \/ \E k \in Callers : ConcRaise(k)
    \/ \E k \in Callers : ConcAppend(k)

SpecConc == Init /\ [][NextConc]_vars

\* C3 (as claimed): of two callers whose last create_booking calls were for
\* the same hall, date and time, at most one was accepted, whatever the
\* interleaving of their checks and appends.
C3_AtMostOneAccepted ==
    \A k1, k2 \in Callers :
        (k1 # k2 /\ pc[k1] = "accepted" /\ pc[k2] = "accepted")
        => ~ SameSlot(req[k1], req[k2])

(***************************************************************************)
(* SpecPricing: Booking.calculate_total_cost over the bookings one client  *)
(* can hold.  The initial states are those reached by one add_client and   *)
(* one accepted create_booking; apply_discount then changes the discount   *)
(* the cost is computed with.                                              *)
(***************************************************************************)
\* PhotoStudioApp.create_booking: the selected equipment, in catalog order.
selected_equipment(selected) ==
    SelectSeq([i \in 1..4 |-> i], LAMBDA i : i \in selected)

PricingEquipment == { selected_equipment(sel) : sel \in SUBSET (1..4) }
PricingDurations == (0 - 1)..8
PricingAmounts == (0 - 1)..31

InitPricing ==
    /\ halls = DefaultHalls
    /\ equipment = DefaultEquipment
    /\ clients = StudioAdapter_add_client(<< >>, "Ivan", "Petrov", PhoneValid, 0)
    /\ \E h \in 1..3, e \in PricingEquipment, n \in PricingDurations :
          LET r == StudioAdapter_create_booking(<< >>, 1, h, e, "10.02.2025",
                                                "10:00", n)
          IN  /\ bookings = r.bookings
              /\ outcome = [op |-> "create_booking",
                            args |-> Booking(1, h, e, "10.02.2025", "10:00", n),
                            raised |-> r.raised, returned |-> r.returned]
    /\ pc = [k \in Callers |-> "idle"]
    /\ req = [k \in Callers |-> NoRequest]
    /\ avail = [k \in Callers |-> FALSE]
    /\ bookings_list = << >>
    /\ total_stats_label = StatsText(0, 0, 0)

NextPricing == \E a \in PricingAmounts : ApplyDiscount(1, a)

SpecPricing == InitPricing /\ [][NextPricing]_vars

\* The sum of f over the index set S.
RECURSIVE SumOver(_, _)
SumOver(f, S) ==
    IF S = {} THEN 0
    ELSE LET x == CHOOSE x \in S : TRUE
         IN  f[x] + SumOver(f, S \ {x})

\* (hall.price * duration + sum of item.price * duration)
\*   * (1 - discount/100), in hundredths.
ClaimedAmount(b, discount) ==
    (halls[b.hall].price * b.duration
     + SumOver([i \in DOMAIN b.equipment |->
                   equipment[b.equipment[i]].price * b.duration],
               DOMAIN b.equipment))
    * (100 - discount)

\* C6: calculate_total_cost returns (hall.price * duration + the sum over
\* the equipment of item.price * duration) * (1 - discount/100); hall 1
\* (rate 2000) for 2 hours costs 4000 without equipment and discount, 5000
\* with the item of rate 500, and 4500 with that item and discount 10.
C6_CostFormula ==
    \A i \in DOMAIN bookings :
        LET b == bookings[i]
            d == clients[b.client].discount
        IN  /\ Booking_cost(b) = ClaimedAmount(b, d)
            /\ (b.hall = 1 /\ b.duration = 2 /\ b.equipment = << >> /\ d = 0)
               => Booking_cost(b) = 4000 * 100
            /\ (b.hall = 1 /\ b.duration = 2 /\ b.equipment = <<1>> /\ d = 0)
               => Booking_cost(b) = 5000 * 100
            /\ (b.hall = 1 /\ b.duration = 2 /\ b.equipment = <<1>> /\ d = 10)
               => Booking_cost(b) = 4500 * 100

\* C6 witness: hall 1 is held for 2 hours with the item of rate 500 by a
\* client whose discount was set to 10.
C6_Witness ==
    /\ Len(bookings) = 1
    /\ bookings[1].hall = 1
    /\ bookings[1].duration = 2
    /\ bookings[1].equipment = <<1>>
    /\ clients[bookings[1].client].discount = 10
    /\ outcome.op = "apply_discount"

(***************************************************************************)
(* SpecClients: the client registry under add_client and apply_discount    *)
(* with discounts inside and outside 0..30.                                *)
(***************************************************************************)
DiscountArgs == {0 - 5, 0 - 1, 0, 1, 15, 30, 31, 100}

NextClients ==
    \/ \E fn \in FirstNames, ln \in LastNames, d \in DiscountArgs :
          AddClient(fn, ln, PhoneValid, d)
    \/ \E c \in 1..MaxClients, a \in DiscountArgs : ApplyDiscount(c, a)

SpecClients == Init /\ [][NextClients]_vars

\* C7: after any add_client and apply_discount calls, with negative
\* discounts and discounts above 30 among the arguments, every client in
\* the registry has a discount in 0..30.
C7_DiscountInRange ==
    \A i \in DOMAIN clients :
        0 <= clients[i].discount /\ clients[i].discount <= 30

\* C7 witness: add_client was just called with a discount above 30, after
\* another client had its discount set to 30.
C7_Witness ==
    /\ outcome.op = "add_client"
    /\ outcome.args[4] > 30
    /\ Len(clients) = 2
    /\ clients[1].discount = 30

\* C8: apply_discount(amount) returns True and stores amount if and only if
\* 0 <= amount <= 30; for any other amount it returns False and the stored
\* discount stays what it was.
C8_ApplyDiscountIffInRange ==
    [][outcome'.op = "apply_discount"
       => LET c == outcome'.args[1]
              amount == outcome'.args[2]
          IN  IF 0 <= amount /\ amount <= 30
              THEN /\ outcome'.returned = TRUE
                   /\ clients'[c].discount = amount
              ELSE /\ outcome'.returned = FALSE
                   /\ clients'[c].discount = clients[c].discount]_vars

\* C8 witness: apply_discount(31) just failed on a client holding 15.
C8_Witness ==
    /\ outcome.op = "apply_discount"
    /\ outcome.args[2] = 31
    /\ outcome.returned = FALSE
    /\ clients[outcome.args[1]].discount = 15

(***************************************************************************)
(* SpecAnyArgs: create_booking with arguments no validation stops: a       *)
(* client with a malformed phone, durations below 1 and above 8.           *)
(***************************************************************************)
AnyPhones == {PhoneValid, PhoneShort, PhoneLetters}
AnyDurations == {0 - 1, 0, 1, 9}
AnyTimes == {"10:00", "11:00"}

NextAnyArgs ==
    \/ \E fn \in FirstNames, ln \in LastNames, p \in AnyPhones :
          AddClient(fn, ln, p, 0)
    \/ \E c \in 1..MaxClients, t \in AnyTimes, n \in AnyDurations :
          CreateBooking(c, 1, << >>, "10.02.2025", t, n)

SpecAnyArgs == Init /\ [][NextAnyArgs]_vars

\* A phone of exactly 11 characters, all of them digits.
ValidPhone(phone) ==
    /\ Len(phone) = 11
    /\ \A i \in DOMAIN phone :
          phone[i] \in {"0", "1", "2", "3", "4", "5", "6", "7", "8", "9"}

\* C9 (as claimed): for every booking the program holds, the cost does not
\* fall when the duration grows by an hour, does not fall when an equipment
\* item is added, and does not rise when the client's discount grows.
C9_CostMonotone ==
    \A i \in DOMAIN bookings :
        LET b == bookings[i]
            d == clients[b.client].discount
        IN  /\ calculate_total_cost([b EXCEPT !.duration = @ + 1], d)
                  >= calculate_total_cost(b, d)
            /\ \A item \in DOMAIN equipment :
                  calculate_total_cost(
                      [b EXCEPT !.equipment = Append(@, item)], d)
                  >= calculate_total_cost(b, d)
            /\ \A d2 \in d..30 :
                  calculate_total_cost(b, d2) <= calculate_total_cost(b, d)

\* C10 (as claimed): every booking in the ledger refers to a client whose
\* phone is exactly 11 digits; a request of any other client is rejected.
C10_HeldBookingsHaveValidPhone ==
    \A i \in DOMAIN bookings : ValidPhone(clients[bookings[i].client].phone)

(***************************************************************************)
(* Validation of what is added: clients and durations.                     *)
(***************************************************************************)
\* C11 (as claimed): add_client with an empty first name, last name or
\* phone, or with a discount outside 0..30, is rejected and leaves the
\* client registry unchanged.
C11_BadClientRejected ==
    [][(/\ outcome'.op = "add_client"
        /\ \/ outcome'.args[1] = ""
           \/ outcome'.args[2] = ""
           \/ Len(outcome'.args[3]) = 0
           \/ outcome'.args[4] < 0
           \/ outcome'.args[4] > 30)
       => clients' = clients]_vars

\* C12 (as claimed): every booking held in Studio.bookings has a duration
\* in 1..8; a request with any other duration is never inserted.
C12_DurationInRange ==
    \A i \in DOMAIN bookings :
        1 <= bookings[i].duration /\ bookings[i].duration <= 8

(***************************************************************************)
(* What a rejection reports, and what follows it.                          *)
(***************************************************************************)
\* C13: a HallNotAvailableError raised by add_booking carries the hall
\* number, the date and the start time of the rejected request itself.
C13_ErrorCarriesRequest ==
    Rejected(outcome)
    => /\ outcome.raised.hall_number = halls[outcome.args.hall].number
       /\ outcome.raised.date = outcome.args.date
       /\ outcome.raised.time = outcome.args.time

\* C13 witness: the rejected request collides with the second booking held,
\* and the first booking held is on another slot.
C13_Witness ==
    /\ Rejected(outcome)
    /\ Len(bookings) = 2
    /\ SameSlot(bookings[2], outcome.args)
    /\ ~ SameSlot(bookings[1], outcome.args)

(***************************************************************************)
(* PhotoStudioApp: the window's handlers over the adapter.                 *)
(* A line edit's text is the sequence of its characters.  The date and     *)
(* time edits are read as the strings toString("dd.MM.yyyy") and           *)
(* toString("hh:mm") give.                                                 *)
(***************************************************************************)
\* The characters str.strip() removes: those str.isspace() is true of.  A
\* character that has no escape in a TLA+ string is written as its code
\* point; form feed and carriage return are given both ways.
Whitespace ==
    {"\t", "\n", "U+000B", "\f", "U+000C", "\r", "U+000D",
     "U+001C", "U+001D", "U+001E", "U+001F", " ", "U+0085", "U+00A0",
     "U+1680", "U+2000", "U+2001", "U+2002", "U+2003", "U+2004", "U+2005",
     "U+2006", "U+2007", "U+2008", "U+2009", "U+200A", "U+2028", "U+2029",
     "U+202F", "U+205F", "U+3000"}

\* str.strip(): leading whitespace removed ...
RECURSIVE lstrip(_)
lstrip(text) ==
    IF text # << >> /\ Head(text) \in Whitespace
    THEN lstrip(Tail(text))
    ELSE text

\* ... and trailing whitespace removed.
RECURSIVE rstrip(_)
rstrip(text) ==
    IF text # << >> /\ text[Len(text)] \in Whitespace
    THEN rstrip(SubSeq(text, 1, Len(text) - 1))
    ELSE text

strip(text) == rstrip(lstrip(text))

\* sum(b.calculate_total_cost() for b in self.adapter.studio.bookings),
\* for bookings that all have a client.
RECURSIVE total_income(_, _)
total_income(bks, cls) ==
    IF bks = << >> THEN 0
    ELSE calculate_total_cost(Head(bks), cls[Head(bks).client].discount)
         + total_income(Tail(bks), cls)

\* currentData() of a combo entry that has no Client attached: None.
NoClient == 0

\* The AttributeError reading an attribute of None raises.
AttributeError(attr) == [type |-> "AttributeError", attr |-> attr]

\* PhotoStudioApp.update_stats: what the label shows after it, and the
\* exception it ends with.  calculate_total_cost of a booking whose client
\* is None raises before setText is reached.
update_stats(label, cls, bks) ==
    IF \E i \in DOMAIN bks : bks[i].client = NoClient
    THEN [total_stats_label |-> label, raised |-> AttributeError("_discount")]
    ELSE [total_stats_label |->
              StatsText(Len(cls), Len(bks), total_income(bks, cls)),
          raised |-> NoError]

\* The item PhotoStudioApp.create_booking adds to bookings_list: the values
\* its text is formatted from.
BookingItem(booking, cls, hs) ==
    [date |-> booking.date, time |-> booking.time,
     fname |-> cls[booking.client].fname, lname |-> cls[booking.client].lname,
     hall_number |-> hs[booking.hall].number, duration |-> booking.duration,
     cost |-> calculate_total_cost(booking, cls[booking.client].discount)]

\* PhotoStudioApp.add_client: the registry after the handler and the
\* message box it shows.
PhotoStudioApp_add_client(cls, first_text, last_text, phone_text, discount) ==
    LET first_name == strip(first_text)
        last_name == strip(last_text)
        phone == strip(phone_text)
    IN  IF first_name = << >> \/ last_name = << >> \/ phone = << >>
        THEN [clients |-> cls, dialog |-> "warning"]
        ELSE [clients |-> StudioAdapter_add_client(cls, first_name, last_name,
                                                   phone, discount),
              dialog |-> "information"]

\* client_combo.currentData(): the Client update_clients_combo attached to
\* the entry, or None for an entry the user typed into the editable combo,
\* which stands after the clients' entries.
currentData(cls, current_index) ==
    IF current_index < Len(cls) THEN current_index + 1 ELSE NoClient

\* PhotoStudioApp.create_booking: current_index is client_combo's
\* currentIndex (-1: nothing selected).  The ledger, the list widget and the
\* label after the handler, the exception it caught and the message box it
\* showed.
PhotoStudioApp_create_booking(bks, items, label, cls, current_index, h, date, time, duration, selected) ==
    IF current_index = 0 - 1
    THEN [bookings |-> bks, bookings_list |-> items,
          total_stats_label |-> label, raised |-> NoError,
          dialog |-> "warning"]
    ELSE LET client == currentData(cls, current_index)
             r == StudioAdapter_create_booking(bks, client, h,
                      selected_equipment(selected), date, time, duration)
         IN  IF r.raised.type = "HallNotAvailableError"
             THEN [bookings |-> r.bookings, bookings_list |-> items,
                   total_stats_label |-> label, raised |-> r.raised,
                   dialog |-> "warning"]
             ELSE IF client = NoClient
             THEN [bookings |-> r.bookings, bookings_list |-> items,
                   total_stats_label |-> label,
                   raised |-> AttributeError("_fname"),
                   dialog |-> "critical"]
             ELSE LET added == Append(items,
                          BookingItem(r.bookings[Len(r.bookings)], cls, halls))
                      u == update_stats(label, cls, r.bookings)
                  IN  [bookings |-> r.bookings, bookings_list |-> added,
                       total_stats_label |-> u.total_stats_label,
                       raised |-> u.raised,
                       dialog |-> IF u.raised = NoError THEN "information"
                                  ELSE "critical"]

\* The window is open: no exception has left a slot and ended the process.
Running == ~ (outcome.op = "PhotoStudioApp.update_stats"
              /\ outcome.dialog = "abort")

\* add_client_btn.clicked: the texts of the three line edits and the value
\* of discount_spin (range 0..30) are the inputs.
GuiAddClient(first_text, last_text, phone_text, discount) ==
    LET r == PhotoStudioApp_add_client(clients, first_text, last_text,
                                       phone_text, discount)
    IN  /\ Running
        /\ Len(r.clients) <= MaxClients
        /\ clients' = r.clients
        /\ outcome' = [op |-> "PhotoStudioApp.add_client",
                       args |-> <<first_text, last_text, phone_text, discount>>,
                       raised |-> NoError, returned |-> FALSE,
                       dialog |-> r.dialog]
        /\ UNCHANGED <<halls, equipment, bookings, pc, req, avail, gui>>

\* book_btn.clicked: the combo selections, the date and time edits, the
\* duration spin box (range 1..8) and the selected rows of equipment_list
\* are the inputs.
GuiCreateBooking(current_index, h, date, time, duration, selected) ==
    LET r == PhotoStudioApp_create_booking(bookings, bookings_list,
                 total_stats_label, clients, current_index, h, date, time,
                 duration, selected)
    IN  /\ Running
        /\ Len(r.bookings) <= MaxBookings
        /\ bookings' = r.bookings
        /\ bookings_list' = r.bookings_list
        /\ total_stats_label' = r.total_stats_label
        /\ outcome' = [op |-> "PhotoStudioApp.create_booking",
                       args |-> [current_index |-> current_index, hall |-> h,
                                 date |-> date, time |-> time,
                                 duration |-> duration, selected |-> selected],
                       raised |-> r.raised, returned |-> FALSE,
                       dialog |-> r.dialog]
        /\ UNCHANGED <<halls, equipment, clients, pc, req, avail>>

\* refresh_btn.clicked is connected to update_stats.  No handler stands
\* between the slot and an exception of update_stats: PyQt5 from 5.5 on ends
\* the process ("abort"), earlier versions print the traceback and go on.
GuiRefreshStats ==
    LET u == update_stats(total_stats_label, clients, bookings)
    IN  /\ Running
        /\ total_stats_label' = u.total_stats_label
        /\ \E d \in IF u.raised = NoError THEN {"none"} ELSE {"none", "abort"} :
              outcome' = [op |-> "PhotoStudioApp.update_stats", args |-> << >>,
                          raised |-> u.raised, returned |-> FALSE,
                          dialog |-> d]
        /\ UNCHANGED <<halls, equipment, clients, bookings, pc, req, avail,
                       bookings_list>>

\* client_combo.currentIndex(): -1 while nothing is selected, the position
\* of a client's entry, or, one past the clients, the position of an entry
\* the user typed in and entered.
CurrentIndexes == (0 - 1)..Len(clients)

GuiFirstTexts == {<<"\r", "I", "v", "a", "n">>, <<"U+00A0">>}
GuiLastTexts == {<<"P", " ">>, << >>}
GuiPhoneTexts == {PhoneValid, <<" ", "\t">>}
GuiDiscounts == {10}
GuiSlots ==
    { <<1, "10.02.2025", "10:00">>, <<1, "10.02.2025", "11:00">>,
      <<2, "11.02.2025", "10:00">> }
GuiOrders == { <<{1}, 2>> }

NextGui ==
    \/ \E ft \in GuiFirstTexts, lt \in GuiLastTexts, pt \in GuiPhoneTexts,
          d \in GuiDiscounts :
          GuiAddClient(ft, lt, pt, d)
    \/ \E ci \in CurrentIndexes, s \in GuiSlots, o \in GuiOrders :
          GuiCreateBooking(ci, s[1], s[2], s[3], o[2], o[1])
    \/ GuiRefreshStats

SpecGui == Init /\ [][NextGui]_vars

\* The window's booking handler caught a HallNotAvailableError.
GuiRejected(o) ==
    /\ o.op = "PhotoStudioApp.create_booking"
    /\ o.raised.type = "HallNotAvailableError"

\* C14: a conflict is recoverable.  The booking handler ends every request
\* with a message box, answers a rejection with a warning and leaves the
\* ledger as it was, and when the last thing that happened was a rejection,
\* a following request with a selected entry for a (hall, date, time) no
\* held booking occupies is admitted: the booking is appended to the ledger.
C14_RejectionsRecoverable ==
    [][/\ outcome'.op = "PhotoStudioApp.create_booking"
              => outcome'.dialog \in {"information", "warning", "critical"}
       /\ GuiRejected(outcome') =>
              outcome'.dialog = "warning" /\ bookings' = bookings
       /\ (/\ GuiRejected(outcome)
           /\ outcome'.op = "PhotoStudioApp.create_booking"
           /\ outcome'.args.current_index # 0 - 1
           /\ ~ \E i \in DOMAIN bookings : SameSlot(bookings[i], outcome'.args))
          => /\ ~ GuiRejected(outcome')
             /\ Len(bookings') = Len(bookings) + 1
             /\ SubSeq(bookings', 1, Len(bookings)) = bookings
             /\ SameSlot(bookings'[Len(bookings')], outcome'.args)]_vars

\* A rejection has just been shown while a slot of the same hall and date,
\* one hour later, is free and the ledger has room for it.
C14_Witness ==
    /\ GuiRejected(outcome)
    /\ Len(bookings) = 1
    /\ outcome.args.hall = 1 /\ outcome.args.time = "10:00"
    /\ bookings[1].hall = 1 /\ bookings[1].time = "10:00"
    /\ bookings[1].date = outcome.args.date

\* C20: the presentation agrees with the core: bookings_list has one entry
\* per held booking, in the same order, and the statistics label shows the
\* current client count, booking count and total income.
C20_PresentationAgrees ==
    /\ Len(bookings_list) = Len(bookings)
    /\ \A i \in DOMAIN bookings :
           /\ bookings[i].client \in DOMAIN clients
           /\ bookings_list[i] = BookingItem(bookings[i], clients, halls)
    /\ total_stats_label
           = StatsText(Len(clients), Len(bookings),
                       SumOver([i \in DOMAIN bookings |->
                                   ClaimedAmount(bookings[i],
                                       clients[bookings[i].client].discount)],
                               DOMAIN bookings))


(***************************************************************************)
(* SpecListing: the order of the ledger.  Three bookings are needed to     *)
(* tell a ledger grouped by date from one in admission order, so requests  *)
(* are taken while the ledger holds at most MaxListed bookings.            *)
(***************************************************************************)
MaxListed == MaxBookings + 1

\* StudioAdapter.get_client_bookings: the client's bookings, in ledger order.
get_client_bookings(bks, client) == SelectSeq(bks, LAMBDA b : b.client = client)

ListingSlots ==
    { <<1, "10.02.2025", "10:00">>, <<2, "10.02.2025", "10:00">>,
      <<1, "11.02.2025", "10:00">>, <<2, "11.02.2025", "10:00">> }

NextListing ==
    \/ \E fn \in FirstNames, ln \in LastNames : AddClient(fn, ln, PhoneValid, 0)
    \/ \E c \in 1..MaxClients, s \in ListingSlots :
          CreateBookingUpTo(MaxListed, c, s[1], << >>, s[2], s[3], 1)

SpecListing == Init /\ [][NextListing]_vars

\* The bookings of one date stand next to each other in the sequence.
GroupedByDate(listing) ==
    \A i, j, k \in DOMAIN listing :
        (i < j /\ j < k /\ listing[i].date = listing[k].date)
            => listing[j].date = listing[i].date

\* C15: the listing is grouped by date: in the ledger, and in each client's
\* bookings, all bookings of one date are contiguous.
C15_ListingGroupedByDate ==
    /\ GroupedByDate(bookings)
    /\ \A c \in DOMAIN clients : GroupedByDate(get_client_bookings(bookings, c))


\* C18: a booking's cost is not frozen at admission.  A successful
\* apply_discount(amount) on the client leaves the held bookings as they
\* are, and the cost of each of the client's bookings, and the total income,
\* are from then on the values under the new discount; the cost differs from
\* the one before whenever the discount changed and the undiscounted total
\* is not zero.
C18_CostFollowsDiscount ==
    [][(outcome'.op = "apply_discount" /\ outcome'.returned)
       => LET c == outcome'.args[1]
              amount == outcome'.args[2]
          IN  /\ bookings' = bookings
              /\ \A i \in DOMAIN bookings :
                     bookings[i].client = c =>
                         /\ Booking_cost(bookings[i])'
                                = ClaimedAmount(bookings[i], amount)
                         /\ (/\ amount # clients[c].discount
                             /\ ClaimedAmount(bookings[i], 0) # 0)
                            => Booking_cost(bookings[i])'
                                   # Booking_cost(bookings[i])
              /\ total_income(bookings', clients')
                     = SumOver([i \in DOMAIN bookings |->
                                   ClaimedAmount(bookings[i],
                                                 clients'[bookings[i].client].discount)],
                               DOMAIN bookings)]_vars

\* apply_discount(20) has succeeded on the client of a booking of hall 2
\* for 3 hours that was admitted at discount 0: 9000 became 7200.
C18_Witness ==
    /\ outcome.op = "apply_discount" /\ outcome.returned
    /\ outcome.args = <<1, 20>>
    /\ Len(bookings) = 1
    /\ bookings[1].client = 1 /\ bookings[1].hall = 2
    /\ bookings[1].duration = 3 /\ bookings[1].equipment = << >>
    /\ Booking_cost(bookings[1]) = 7200 * 100
    /\ total_income(bookings, clients) = 7200 * 100


(***************************************************************************)
(* SpecQuery: admission together with the availability query.              *)
(***************************************************************************)
\* StudioAdapter.get_available_halls(date, time): outcome.returned is the
\* list it returns, as positions in the catalog.
GetAvailableHalls(date, time) ==
    /\ outcome' = [op |-> "get_available_halls", args |-> <<date, time>>,
                   raised |-> NoError,
                   returned |-> get_available_halls(bookings, date, time)]
    /\ UNCHANGED <<halls, equipment, clients, bookings, pc, req, avail, gui>>

QuerySlots == {"10.02.2025", "11.02.2025"} \X {"10:00", "11:00"}

NextQuery ==
    \/ \E fn \in FirstNames, ln \in LastNames :
          AddClient(fn, ln, PhoneValid, 0)
    \/ \E c \in 1..MaxClients, s \in AdmissionSlots \cup AddedSlots :
          CreateBooking(c, s[1], << >>, s[2], s[3], 1)
    \/ \E q \in QuerySlots : GetAvailableHalls(q[1], q[2])
    \/ \E x \in NewHalls : AddHall(x[1], x[2], x[3])

SpecQuery == Init /\ [][NextQuery]_vars

\* The elements of a sequence.
Range(seq) == {seq[i] : i \in DOMAIN seq}

\* create_booking for the hall at the date and time would be accepted.
WouldAccept(h, date, time) ==
    StudioAdapter_create_booking(bookings, 1, h, << >>, date, time, 1).raised
        = NoError

\* C19: get_available_halls agrees with admission.  In every state its
\* result for a date and time lists, in catalog order, exactly the halls a
\* create_booking for that date and time would be accepted for; a call
\* returns that list and changes nothing; a hall leaves the list exactly in
\* a step that accepts a booking of that hall at that date and time, and a
\* hall of the catalog that is not in the list is not in it after any step.
C19_AvailableHallsAgree ==
    [][/\ \A q \in QuerySlots :
              LET res == get_available_halls(bookings, q[1], q[2])
                  resAfter == get_available_halls(bookings, q[1], q[2])'
              IN  /\ \A i, j \in DOMAIN res : i < j => res[i] < res[j]
                  /\ \A h \in DOMAIN halls :
                         /\ h \in Range(res) <=> WouldAccept(h, q[1], q[2])
                         /\ (h \in Range(res) /\ h \notin Range(resAfter))
                            <=> /\ outcome'.op = "create_booking"
                                /\ outcome'.raised = NoError
                                /\ Len(bookings') = Len(bookings) + 1
                                /\ outcome'.args.hall = h
                                /\ outcome'.args.date = q[1]
                                /\ outcome'.args.time = q[2]
                         /\ h \notin Range(res) => h \notin Range(resAfter)
       /\ outcome'.op = "get_available_halls"
          => /\ outcome'.returned
                    = get_available_halls(bookings, outcome'.args[1],
                                          outcome'.args[2])
             /\ UNCHANGED <<halls, equipment, clients, bookings, gui>>]_vars

\* Halls 1 and 2 are held on 10.02.2025 at 10:00, a fourth hall has been
\* added, and the query for that date and time has returned halls 3 and 4.
C19_Witness ==
    /\ outcome.op = "get_available_halls"
    /\ outcome.args = <<"10.02.2025", "10:00">>
    /\ outcome.returned = <<3, 4>>
    /\ Len(bookings) = 2


(***************************************************************************)
(* SpecCancel: the ledger's cancel operation.  src/ holds no cancellation  *)
(* code; it is modelled from the specification's contract: cancel removes  *)
(* all bookings of the matching client identity, returns how many it       *)
(* removed and signals ClientNotFoundError when none matched.  A client's  *)
(* identity is the client object, as in Booking's reference to it.         *)
(***************************************************************************)
ClientNotFoundError(client) == [type |-> "ClientNotFoundError", client |-> client]

\* cancel matching on the client's name instead of the client's identity.
cancel_by_name(bks, client) ==
    LET same(b) == /\ client \in DOMAIN clients
                   /\ clients[b.client].fname = clients[client].fname
                   /\ clients[b.client].lname = clients[client].lname
        kept == SelectSeq(bks, LAMBDA b : ~ same(b))
        count == Len(bks) - Len(kept)
    IN  [bookings |-> kept, returned |-> count,
         raised |-> IF count = 0 THEN ClientNotFoundError(client) ELSE NoError]

\* cancel(clientIdentifier)
cancel(bks, client) ==
    LET kept == SelectSeq(bks, LAMBDA b : b.client # client)
        count == Len(bks) - Len(kept)
    IN  [bookings |-> kept, returned |-> count,
         raised |-> IF count = 0 THEN ClientNotFoundError(client) ELSE NoError]

\* A call of cancel for client c, registered or not.
Cancel(c) ==
    LET r == cancel(bookings, c)
    IN  /\ bookings' = r.bookings
        /\ outcome' = [op |-> "cancel", args |-> <<c>>, raised |-> r.raised,
                       returned |-> r.returned]
        /\ UNCHANGED <<halls, equipment, clients, pc, req, avail, gui>>

NextCancel ==
    \/ \E fn \in FirstNames, ln \in LastNames :
          AddClient(fn, ln, PhoneValid, 0)
    \/ \E c \in 1..MaxClients, s \in AdmissionSlots :
          CreateBooking(c, s[1], << >>, s[2], s[3], 1)
    \/ \E c \in 1..MaxClients : Cancel(c)

SpecCancel == Init /\ [][NextCancel]_vars

\* C16: a cancel for client c removes exactly the bookings of c, keeping
\* the others in their order, and returns how many it removed; when c holds
\* no booking it returns 0 with ClientNotFoundError and the ledger is as it
\* was.  The registry is never touched.
C16_CancelRemovesClientBookings ==
    [][(outcome'.op = "cancel" /\ ~ (outcome.op = "cancel" /\ outcome' = outcome))
       => LET c == outcome'.args[1]
              matching == {i \in DOMAIN bookings : bookings[i].client = c}
              others == {i \in DOMAIN bookings : bookings[i].client # c}
          IN  /\ outcome'.returned = Cardinality(matching)
              /\ Len(bookings') = Cardinality(others)
              /\ \A i \in DOMAIN bookings' : bookings'[i].client # c
              /\ \A i, j \in others :
                     i < j => \E m, n \in DOMAIN bookings' :
                                 /\ m < n
                                 /\ bookings'[m] = bookings[i]
                                 /\ bookings'[n] = bookings[j]
              /\ \A i \in others : \E m \in DOMAIN bookings' :
                     bookings'[m] = bookings[i]
              /\ (matching = {})
                     => /\ outcome'.raised.type = "ClientNotFoundError"
                        /\ bookings' = bookings
              /\ (matching # {}) => outcome'.raised = NoError
              /\ clients' = clients]_vars

\* Client 1's only booking has been cancelled and the booking of client 2
\* is still held.
C16_Witness ==
    /\ outcome.op = "cancel"
    /\ outcome.args = <<1>>
    /\ outcome.returned = 1
    /\ outcome.raised = NoError
    /\ Len(bookings) = 1
    /\ bookings[1].client = 2


(***************************************************************************)
(* SpecPhone: the registry's updatePhone.  Client in src/ has a read-only  *)
(* phone property and no phone check; updatePhone and validatePhone are    *)
(* modelled from the specification's contract.                             *)
(***************************************************************************)
ValidationError(field) == [type |-> "ValidationError", field |-> field]

Digits == {"0", "1", "2", "3", "4", "5", "6", "7", "8", "9"}

\* validatePhone: digits-only AND length == 11.
validate_phone(phone) ==
    /\ \A i \in DOMAIN phone : phone[i] \in Digits
    /\ Len(phone) = 11

\* updatePhone testing the length alone.
update_phone_length_only(client, new_phone) ==
    IF Len(new_phone) = 11
    THEN [client |-> [client EXCEPT !.phone = new_phone], raised |-> NoError]
    ELSE [client |-> client, raised |-> ValidationError("phone")]

\* updatePhone(client, newPhone)
update_phone(client, new_phone) ==
    IF validate_phone(new_phone)
    THEN [client |-> [client EXCEPT !.phone = new_phone], raised |-> NoError]
    ELSE [client |-> client, raised |-> ValidationError("phone")]

\* A call of updatePhone on registered client c.
UpdatePhone(c, new_phone) ==
    /\ c \in DOMAIN clients
    /\ LET r == update_phone(clients[c], new_phone)
       IN  /\ clients' = [clients EXCEPT ![c] = r.client]
           /\ outcome' = [op |-> "update_phone", args |-> <<c, new_phone>>,
                          raised |-> r.raised,
                          returned |-> r.raised = NoError]
    /\ UNCHANGED <<halls, equipment, bookings, pc, req, avail, gui>>

PhoneOther == <<"8", "9", "1", "1", "1", "2", "3", "4", "5", "6", "7">>
PhoneLong == <<"8", "9", "0", "0", "1", "2", "3", "4", "5", "6", "7", "8">>
NewPhones == {PhoneValid, PhoneOther, PhoneShort, PhoneLetters, PhoneLong, << >>}

NextPhone ==
    \/ \E fn \in FirstNames, ln \in LastNames, p \in AnyPhones :
          AddClient(fn, ln, p, 0)
    \/ \E c \in 1..MaxClients, p \in NewPhones : UpdatePhone(c, p)

SpecPhone == Init /\ [][NextPhone]_vars

\* C17: updatePhone succeeds exactly with a new phone of 11 digits and then
\* stores it; with any other new phone the registry is as it was and a
\* ValidationError is signalled.  So an update never puts an invalid phone
\* in the place of a stored one, and it touches nothing but that phone.
C17_UpdatePhoneAtomic ==
    [][(outcome'.op = "update_phone")
       => LET c == outcome'.args[1]
              p == outcome'.args[2]
          IN  /\ ValidPhone(p)
                     => /\ outcome'.raised = NoError
                        /\ clients'[c].phone = p
              /\ ~ ValidPhone(p)
                     => /\ outcome'.raised.type = "ValidationError"
                        /\ clients' = clients
              /\ clients'[c].phone # clients[c].phone
                     => ValidPhone(clients'[c].phone)
              /\ Len(clients') = Len(clients)
              /\ \A k \in DOMAIN clients :
                     /\ k # c => clients'[k] = clients[k]
                     /\ clients'[k].fname = clients[k].fname
                     /\ clients'[k].lname = clients[k].lname
                     /\ clients'[k].discount = clients[k].discount
              /\ bookings' = bookings]_vars

\* Client 1's phone was replaced by another valid one, and an update to a
\* phone of 11 characters that are not all digits has then been refused.
C17_Witness ==
    /\ outcome.op = "update_phone"
    /\ outcome.args = <<1, PhoneLetters>>
    /\ outcome.raised.type = "ValidationError"
    /\ clients[1].phone = PhoneOther

====
